---- MODULE Spec2Model ----
(***************************************************************************)
(* Selection & allocation engine of backend/services/                      *)
(* audit_selection_optimizer.py: run_audit_selection_optimizer and         *)
(* _select_units, as a state machine.  One behaviour of Spec is one run of *)
(* the engine over one input workbook (parameter table + audit universe);  *)
(* SpecLoad starts at the parameters sheet as read; SpecTwice and          *)
(* SpecPermuted run the engine a second time, on the same rows and on the  *)
(* rows in another order.                                                  *)
(*                                                                         *)
(* Mandays, percentages and ratings are integers here; the code holds      *)
(* them in floats, which are exact on these values.                        *)
(***************************************************************************)
EXTENDS Integers, Sequences, FiniteSets, TLC

\* Number of rows of the audit universe sheet.
UniverseSize == 3
\* Largest number of rows of the parameter table.
MaxRows == 2

VARIABLES
    params_raw,     \* the parameters sheet as read, a sequence of rows of cells
    total_mandays,  \* the grand total found in the parameters sheet
    params,         \* the parameter table, a sequence of rows
    audit,          \* the working table `audit`, indexed 1..UniverseSize
    audit_full,     \* the table `audit_full` that is written to the workbook
    pc,             \* position of the run: "start", "loop", "done" or "raised"
    row_idx,        \* index of the parameter row the loop is at
    cur,            \* locals of the loop body (targets, per-tier results)
    log_lines,      \* the trace lines
    alloc_summary,  \* the department results
    calls,          \* history: one record per _select_units call of the run
    sort_memo,      \* what sort_values returned for each pool sorted so far
    sample_memo,    \* what sample returned for each (seed, length, n) so far
    outputs,        \* what the run wrote: sheets and summary payload
    first_run       \* end state of the first run, once a second one started

vars == <<params_raw, total_mandays, params, audit, audit_full, pc, row_idx, cur, log_lines,
          alloc_summary, calls, sort_memo, sample_memo, outputs, first_run>>

-----------------------------------------------------------------------------
(* Text helpers: str.lower() and str.title() on the strings of the model.  *)

LowerTable ==
    [s \in {"Finance", "FINANCE", "finance", "HR", "hr",
            "High", "Medium", "Low", "Other",
            "Department", "Total Mandays", "Note"} |->
        CASE s \in {"Finance", "FINANCE", "finance"} -> "finance"
          [] s \in {"HR", "hr"} -> "hr"
          [] s = "Department" -> "department"
          [] s = "Total Mandays" -> "total mandays"
          [] s = "Note" -> "note"
          [] s = "High" -> "high"
          [] s = "Medium" -> "medium"
          [] s = "Low" -> "low"
          [] OTHER -> "other"]

Lower(s) == LowerTable[s]

TitleTable ==
    [s \in {"High", "HIGH", "medium", "Medium", "low", "Low", "other"} |->
        CASE s \in {"High", "HIGH"} -> "High"
          [] s \in {"medium", "Medium"} -> "Medium"
          [] s \in {"low", "Low"} -> "Low"
          [] OTHER -> "Other"]

Title(s) == TitleTable[s]

\* int(md5(str(text).encode()).hexdigest(), 16) % (2**32) for the department
\* names of the model, as <<high 16 bits, low 16 bits>>:
\* Finance 1076299888, FINANCE 2898732149, HR 3909819162.
_stable_seed(text) ==
    CASE text = "Finance" -> <<16423, 2160>>
      [] text = "FINANCE" -> <<44231, 9333>>
      [] text = "HR" -> <<59659, 6938>>

-----------------------------------------------------------------------------
(* Arithmetic.                                                             *)

\* Mutant: halves rounded up.
RoundHalfUp(num, den) ==
    LET q == num \div den
        r == num % den
    IN  IF 2 * r < den THEN q ELSE q + 1

\* Python round(num / den) for den > 0: round half to even.
RoundHalfEven(num, den) ==
    LET q == num \div den
        r == num % den
    IN  IF 2 * r < den THEN q
        ELSE IF 2 * r > den THEN q + 1
        ELSE IF q % 2 = 0 THEN q ELSE q + 1

Max(a, b) == IF a >= b THEN a ELSE b
Min(a, b) == IF a <= b THEN a ELSE b

\* math.floor(a / b), for b > 0
Floor(a, b) == a \div b

\* Mutant: the unit count rounded up instead of down.
NumUnits_Ceil(target, md_value) == Max(0 - Floor(0 - target, md_value), 0)

\* Mutant: the unit count not clamped at 0.
NumUnits_Unclamped(target, md_value) == Floor(target, md_value)

\* num_units = max(math.floor(target / md_value), 0)
NumUnits(target, md_value) == Max(Floor(target, md_value), 0)

\* math.ceil(num_units * 0.5)
TopN(num_units) == (num_units + 1) \div 2

-----------------------------------------------------------------------------
(* Sequences.                                                              *)

\* DataFrame.head(n): the first n rows; all but the last -n rows when n < 0
HeadN(s, n) ==
    IF n >= 0 THEN SubSeq(s, 1, Min(n, Len(s)))
    ELSE SubSeq(s, 1, Max(Len(s) + n, 0))

\* Mutant: the remainder pool is the whole sorted pool.
ILocFrom_WholePool(s, n) == s

\* DataFrame.iloc[n:], n >= 0
ILocFrom(s, n) == SubSeq(s, Min(n, Len(s)) + 1, Len(s))

Range(s) == {s[i] : i \in DOMAIN s}

Perms(s) ==
    {p \in [DOMAIN s -> Range(s)] : \A i, j \in DOMAIN s : i # j => p[i] # p[j]}

-----------------------------------------------------------------------------
(* Inputs of a run.                                                        *)

Totals == {10}

Row(dept, pct, hd, md, ld, hp, mp, lp) ==
    [Department |-> dept, Percentage |-> pct,
     HighDays |-> hd, MediumDays |-> md, LowDays |-> ld,
     HighPct |-> hp, MedPct |-> mp, LowPct |-> lp]

\* Rows a parameter table may hold (the code validates none of the fields).
ParamRows ==
    { Row("Finance", 40, 1, 1, 1, 100, 0, 0),
      Row("FINANCE", 30, 1, 2, 1, 50, 50, 0),
      Row("HR", 50, 0, 1, 3, 50, 50, 100),
      Row("HR", 0, 1, 1, 1, 50, 25, 25),
      Row("Finance", 45, 2, 1, 1, 50, 50, 0),
      Row("HR", 4, 1, 1, 0, 0, 0, 100),
      Row("HR", 0 - 40, 1, 1, 1, 0, 0, 100) }

ParamTables ==
    UNION {[1..n -> ParamRows] : n \in 1..MaxRows}

\* Rows of the audit universe sheet: department (column 3), risk category
\* (column 8) and rating (column 7) as they stand in the sheet.
UnitKinds ==
    << [Department |-> "Finance", Category |-> "HIGH", Rating |-> 1],
       [Department |-> "Finance", Category |-> "High", Rating |-> 2],
       [Department |-> "finance", Category |-> "medium", Rating |-> 1],
       [Department |-> "hr", Category |-> "Low", Rating |-> 1],
       [Department |-> "Finance", Category |-> "other", Rating |-> 3] >>

\* The sheets of the model list their rows kind by kind.  Two rows that can tie
\* in a pool are of the same kind, so every pool and every tie of an arbitrary
\* sheet of these rows occurs in one of these.
Universes ==
    { [i \in 1..UniverseSize |-> UnitKinds[f[i]]] :
        f \in {g \in [1..UniverseSize -> DOMAIN UnitKinds] :
                  \A i, j \in 1..UniverseSize : i < j => g[i] <= g[j]} }

Units == 1..UniverseSize

-----------------------------------------------------------------------------
(* The parameters sheet and the parameter table built from it.             *)

\* A cell of the sheet (dtype=object): a number, a text or a blank.
Num(n) == [t |-> "num", n |-> n, s |-> ""]
Str(s) == [t |-> "str", n |-> 0, s |-> s]
NA == [t |-> "na", n |-> 0, s |-> ""]

\* The texts that read as a number, and the number each reads as.
NumberText == [s \in {"10"} |-> 10]

\* pd.to_numeric(cell, errors="coerce"): a number, or NA
ToNumeric(cell) ==
    IF cell.t = "num" THEN cell
    ELSE IF cell.t = "str" /\ cell.s \in DOMAIN NumberText THEN Num(NumberText[cell.s])
    ELSE NA

\* pd.to_numeric(cell, errors="coerce") followed by fillna(0)
NumericOrZero(cell) == ToNumeric(cell).n

StripTable ==
    [s \in {"Department", "Finance", "FINANCE", " HR ", "HR", "Total Mandays",
            "Note"} |->
        IF s = " HR " THEN "HR" ELSE s]

\* str(cell).strip() of a text cell
Strip(cell) == StripTable[cell.s]

\* str(cell).strip().lower().startswith("department")
StartsWithDepartment(cell) == Lower(Strip(cell)) = "department"

HeaderRow ==
    << Str("Department"), Str("Percentage"), Str("Percentage"), Str("Percentage"),
       Str("Percentage"), Str("Percentage"), Str("Percentage"), Str("Percentage") >>

TotalRow(total) == << Str("Total Mandays"), total, NA, NA, NA, NA, NA, NA >>

RawRow(row) ==
    << Str(row.Department), Num(row.Percentage), Num(row.HighDays),
       Num(row.MediumDays), Num(row.LowDays), Num(row.HighPct), Num(row.MedPct),
       Num(row.LowPct) >>

\* A sheet that holds a header line, the rows of a parameter table and the total.
RawOf(table, total) ==
    <<HeaderRow>> \o [k \in DOMAIN table |-> RawRow(table[k])] \o <<TotalRow(Num(total))>>

\* Rows a parameters sheet may hold.
RawRows ==
    { HeaderRow,
      RawRow(Row("Finance", 45, 2, 1, 1, 50, 50, 0)),
      << Str(" HR "), Num(50), NA, Num(1), Num(3), Num(50), Num(50), Num(100) >>,
      RawRow(Row("HR", 0, 1, 1, 1, 50, 25, 25)),
      TotalRow(Num(10)),
      TotalRow(Str("10")),
      << Str("Note"), Str("n/a"), NA, NA, NA, NA, NA, NA >> }

\* The sheet after dropna(how="all"): it may lack the total, the header or the
\* department rows, and hold them in any order.
RawTables == UNION {[1..n -> RawRows] : n \in 1..(MaxRows + 1)}

\* col1_numeric.dropna().index: the rows whose second column is numeric
NumericIdx(raw) == {k \in DOMAIN raw : ToNumeric(raw[k][2]).t = "num"}

\* col1_numeric.dropna().index[-1]
LastValidIdx(raw) == CHOOSE k \in NumericIdx(raw) : \A j \in NumericIdx(raw) : j <= k

\* params_raw.iloc[:last_valid_idx]
ParamsData(raw) == SubSeq(raw, 1, LastValidIdx(raw) - 1)

\* Lines 72-73: the first row dropped when it is a header line (there is a first row).
DropHeader(data) == IF StartsWithDepartment(data[1][1]) THEN Tail(data) ELSE data

\* Lines 75-76: the rows whose percentage is numeric.
WithPercent(data) == SelectSeq(data, LAMBDA r : ToNumeric(r[2]).t = "num")

\* Lines 78-86: the parameter table.
ParamsOf(data) ==
    [k \in DOMAIN data |->
        Row(Strip(data[k][1]), NumericOrZero(data[k][2]), NumericOrZero(data[k][3]),
            NumericOrZero(data[k][4]), NumericOrZero(data[k][5]),
            NumericOrZero(data[k][6]), NumericOrZero(data[k][7]),
            NumericOrZero(data[k][8]))]

-----------------------------------------------------------------------------
(* _select_units.                                                          *)

\* Mutant: the pool is not filtered by risk category.
Pool_AnyCategory(aud, dept, cat) ==
    SelectSeq([i \in 1..Len(aud) |-> i],
              LAMBDA i : Lower(aud[i].Department) = Lower(dept))

\* dept_df[dept_df["Audit Risk Category"] == cat] of
\* dept_df = audit[audit["Department"].str.lower() == dept.lower()]:
\* the row labels of the pool, in universe order.
Pool(aud, dept, cat) ==
    SelectSeq([i \in 1..Len(aud) |-> i],
              LAMBDA i : Lower(aud[i].Department) = Lower(dept)
                         /\ aud[i].Category = cat)

\* Mutant: the pool sorted by rating ascending.
SortValues_Ascending(subset, aud) ==
    {p \in Perms(subset) :
        \A i, j \in DOMAIN p : i < j => aud[p[i]].Rating <= aud[p[j]].Rating}

\* The orders sort_values(by="Total Rating", ascending=False) may return: the
\* default sort kind is not stable, so equal ratings may come in any order.
SortValues(subset, aud) ==
    {p \in Perms(subset) :
        \A i, j \in DOMAIN p : i < j => aud[p[i]].Rating >= aud[p[j]].Rating}

\* The sort is a function of its input: the same pool sorts the same way again.
SortChoices(subset, aud, smemo) ==
    IF subset \in DOMAIN smemo THEN {smemo[subset]} ELSE SortValues(subset, aud)

\* Positions rem_pool.sample(n=rem_n, random_state=seed) may draw, for
\* rem_n <= len(rem_pool): rem_n distinct positions of rem_pool.
Sample(len, rem_n) ==
    {S \in SUBSET (1..len) : Cardinality(S) = rem_n}

\* Mutant: a draw that is not seeded, so that it may differ from call to call.
SampleChoices_Unseeded(seed_value, len, rem_n, rmemo) == Sample(len, rem_n)

\* The draw is a function of (seed, len(rem_pool), rem_n).
SampleChoices(seed_value, len, rem_n, rmemo) ==
    IF <<seed_value, len, rem_n>> \in DOMAIN rmemo
    THEN {rmemo[<<seed_value, len, rem_n>>]}
    ELSE Sample(len, rem_n)

\* The rows of rem_pool at the drawn positions, by position.
Take(rem_pool, locs) ==
    SelectSeq(rem_pool, LAMBDA u : \E k \in locs : rem_pool[k] = u)

Line(kind, dept, risk_label, a, b) ==
    [kind |-> kind, dept |-> dept, label |-> risk_label, a |-> a, b |-> b]

\* Mutant: the marks are written to every row of the table.
Mark_AllRows(aud, final_sel, md_value) ==
    [i \in DOMAIN aud |->
        IF final_sel # <<>>
        THEN [aud[i] EXCEPT !.Selected = "Yes", !.PartyDays = md_value]
        ELSE aud[i]]

\* audit.loc[final_sel.index, "Selected"] = "Yes"
\* audit.loc[final_sel.index, "Party days"] = md_value
Mark(aud, final_sel, md_value) ==
    [i \in DOMAIN aud |->
        IF i \in Range(final_sel)
        THEN [aud[i] EXCEPT !.Selected = "Yes", !.PartyDays = md_value]
        ELSE aud[i]]

Outcome(aud, lines, ret, raised, branch, num_units, srt, final_sel, smemo, rmemo) ==
    [audit |-> aud, lines |-> lines, ret |-> ret, raised |-> raised,
     branch |-> branch, num_units |-> num_units, sorted |-> srt,
     final_sel |-> final_sel, sort_memo |-> smemo, sample_memo |-> rmemo]

\* The return of the call: marks the units, returns (count, mandays used).
Selected(aud, lines, branch, num_units, srt, final_sel, md_value, smemo, rmemo) ==
    Outcome(Mark(aud, final_sel, md_value), lines,
            <<Len(final_sel), Len(final_sel) * md_value>>, FALSE,
            branch, num_units, srt, final_sel, smemo, rmemo)

\* risk_label.lower() == "high" and num_units > 1
IsHybrid(risk_label, num_units) == Lower(risk_label) = "high" /\ num_units > 1

\* Lines 39-56, after the sort returned subset_sorted.
AfterSort(aud, subset_sorted, num_units, md_value, risk_label, dept, smemo, rmemo) ==
    IF IsHybrid(risk_label, num_units)
    THEN LET seed_value == _stable_seed(dept)
             top_n == TopN(num_units)
             rem_n == num_units - top_n
             top_sel == HeadN(subset_sorted, top_n)
             rem_pool == ILocFrom(subset_sorted, top_n)
             lines == << Line("TopRandom", dept, risk_label, top_n, rem_n),
                         Line("Seed", dept, risk_label, seed_value[1], seed_value[2]) >>
         IN  IF rem_n > 0 /\ rem_pool # <<>>
             THEN IF rem_n > Len(rem_pool)
                  \* sample raises ValueError: larger sample than population
                  THEN { Outcome(aud, <<>>, <<0, 0>>, TRUE, "hybrid", num_units,
                                 subset_sorted, <<>>, smemo, rmemo) }
                  ELSE { Selected(aud, lines, "hybrid", num_units, subset_sorted,
                                  top_sel \o Take(rem_pool, locs), md_value, smemo,
                                  (<<seed_value, Len(rem_pool), rem_n>> :> locs) @@ rmemo)
                         : locs \in SampleChoices(seed_value, Len(rem_pool), rem_n, rmemo) }
             ELSE { Selected(aud, lines, "hybrid", num_units, subset_sorted,
                             top_sel, md_value, smemo, rmemo) }
    ELSE { Selected(aud, << Line("Units", dept, risk_label, num_units, md_value) >>,
                    "top", num_units, subset_sorted,
                    HeadN(subset_sorted, num_units), md_value, smemo, rmemo) }

\* subset.empty or md_value <= 0
NoPool(subset, md_value) == subset = <<>> \/ md_value <= 0

\* Every way one call _select_units(audit, subset, target, md_value, risk_label,
\* dept, log_lines) can end.
_select_units(aud, subset, target, md_value, risk_label, dept, smemo, rmemo) ==
    IF NoPool(subset, md_value)
    THEN { Outcome(aud, << Line("NoPool", dept, risk_label, 0, 0) >>, <<0, 0>>,
                   FALSE, "nopool", 0, <<>>, <<>>, smemo, rmemo) }
    ELSE LET num_units == NumUnits(target, md_value)
         IN  IF num_units = 0
             THEN { Outcome(aud, << Line("TargetTooLow", dept, risk_label, md_value, 0) >>,
                            <<0, 0>>, FALSE, "toolow", 0, <<>>, <<>>, smemo, rmemo) }
             ELSE UNION { AfterSort(aud, srt, num_units, md_value, risk_label, dept,
                                    (subset :> srt) @@ smemo, rmemo)
                          : srt \in SortChoices(subset, aud, smemo) }

-----------------------------------------------------------------------------
(* run_audit_selection_optimizer.                                          *)

NoLocals ==
    [dept |-> "", dept_total |-> 0,
     high_target |-> 0, med_target |-> 0, low_target |-> 0,
     high_units |-> 0, used_high |-> 0, med_units |-> 0, used_med |-> 0,
     low_units |-> 0, used_low |-> 0]

NoOutputs ==
    [written |-> FALSE, selected_units_sheet |-> <<>>, department_summary |-> <<>>,
     dept_category_summary |-> {}, risk_breakdown |-> <<>>,
     total_mandays_allocated |-> 0, total_mandays_used |-> 0,
     overall_utilization |-> 0, selected_units |-> 0]

\* audit_full and audit as lines 95-104 build them from the sheet.
AuditFull(raw) ==
    [i \in DOMAIN raw |->
        [Department |-> raw[i].Department, Category |-> raw[i].Category,
         Rating |-> raw[i].Rating, Selected |-> "No", PartyDays |-> 0]]

Audit(full) ==
    [i \in DOMAIN full |->
        [Department |-> full[i].Department, Category |-> Title(full[i].Category),
         Rating |-> full[i].Rating, Selected |-> full[i].Selected,
         PartyDays |-> full[i].PartyDays]]

Init ==
    /\ total_mandays \in Totals
    /\ params \in ParamTables
    /\ params_raw = RawOf(params, total_mandays)
    /\ \E raw \in Universes :
          /\ audit_full = AuditFull(raw)
          /\ audit = Audit(AuditFull(raw))
    /\ pc = "loop"
    /\ row_idx = 1
    /\ cur = NoLocals
    /\ log_lines = <<>>
    /\ alloc_summary = <<>>
    /\ calls = <<>>
    /\ sort_memo = <<>>
    /\ sample_memo = <<>>
    /\ outputs = NoOutputs
    /\ first_run = <<>>

\* dept_total = round(total_mandays * pct / 100)
DeptTotal(total, pct) == RoundHalfEven(total * pct, 100)

\* round(dept_total * tier_pct / 100)
TierTarget(dept_total, tier_pct) == RoundHalfEven(dept_total * tier_pct, 100)

\* Mutant: the department filter lets every unit through.
DeptDf_AnyDepartment(aud, dept) == [i \in 1..Len(aud) |-> i]

\* audit[audit["Department"].str.lower() == dept.lower()]
DeptDf(aud, dept) ==
    SelectSeq([i \in 1..Len(aud) |-> i],
              LAMBDA i : Lower(aud[i].Department) = Lower(dept))

\* Mutant: a target of 0 or less reported as fully used.
Utilization_FullWhenNoTarget(used, target) ==
    IF target > 0 THEN RoundHalfEven(used * 1000, target) ELSE 1000

\* round((used / target) * 100, 1) if target > 0 else 0, in tenths of a percent
Utilization(used, target) ==
    IF target > 0 THEN RoundHalfEven(used * 1000, target) ELSE 0

Targets(row) ==
    LET dept_total == DeptTotal(total_mandays, row.Percentage)
    IN  [NoLocals EXCEPT
            !.dept = row.Department,
            !.dept_total = dept_total,
            !.high_target = TierTarget(dept_total, row.HighPct),
            !.med_target = TierTarget(dept_total, row.MedPct),
            !.low_target = TierTarget(dept_total, row.LowPct)]

AllocRow(dept, target, used, util) ==
    [Department |-> dept, Mandays_Allocated |-> target, Mandays_Used |-> used,
     Utilization |-> util]

InLoop == pc = "loop" /\ row_idx <= Len(params)

\* Mutant: the row with percentage 0 is reported as a department with no budget.
SkipRow_Reported ==
    /\ InLoop
    /\ params[row_idx].Percentage = 0
    /\ row_idx' = row_idx + 1
    /\ cur' = [cur EXCEPT !.dept = params[row_idx].Department]
    /\ alloc_summary' = Append(alloc_summary,
                               AllocRow(params[row_idx].Department, 0, 0, 0))
    /\ UNCHANGED <<params_raw, total_mandays, params, audit, audit_full, pc, log_lines,
                   calls, sort_memo, sample_memo, outputs, first_run>>

\* Lines 109-113: a row with percentage 0 is passed over.
SkipRow ==
    /\ InLoop
    /\ params[row_idx].Percentage = 0
    /\ row_idx' = row_idx + 1
    /\ cur' = [cur EXCEPT !.dept = params[row_idx].Department]
    /\ UNCHANGED <<params_raw, total_mandays, params, audit, audit_full, pc, log_lines,
                   alloc_summary, calls, sort_memo, sample_memo, outputs, first_run>>

\* Lines 115-128: no audit unit of the department.
NoMatchingUnits ==
    /\ InLoop
    /\ params[row_idx].Percentage # 0
    /\ DeptDf(audit, params[row_idx].Department) = <<>>
    /\ cur' = Targets(params[row_idx])
    /\ log_lines' = Append(log_lines, Line("NoMatch", params[row_idx].Department, "", 0, 0))
    /\ alloc_summary' = Append(alloc_summary,
                               AllocRow(cur'.dept, cur'.dept_total, 0, 0))
    /\ row_idx' = row_idx + 1
    /\ UNCHANGED <<params_raw, total_mandays, params, audit, audit_full, pc, calls,
                   sort_memo, sample_memo, outputs, first_run>>

CallRecord(aud, o, subset, target, md_value, risk_label, dept) ==
    [dept |-> dept, label |-> risk_label, pool |-> subset, target |-> target,
     md_value |-> md_value, branch |-> o.branch, num_units |-> o.num_units,
     sorted |-> o.sorted, final_sel |-> o.final_sel, ret |-> o.ret,
     raised |-> o.raised,
     changed |-> {i \in DOMAIN aud : o.audit[i] # aud[i]},
     lines |-> o.lines]

\* Where the loop body stands: the working table, the trace, the calls made and
\* what they returned, and whether a call raised.
Body(aud, lines, cs, rets, raised, smemo, rmemo) ==
    [audit |-> aud, lines |-> lines, calls |-> cs, rets |-> rets,
     raised |-> raised, sort_memo |-> smemo, sample_memo |-> rmemo]

\* One of the calls of lines 130-132, on the pool of one risk category.  After a
\* call that raised no further call is made.
Call(b, cat, target, md_value, dept) ==
    IF b.raised THEN {b}
    ELSE LET subset == Pool(b.audit, dept, cat)
         IN  { Body(o.audit, b.lines \o o.lines,
                    Append(b.calls, CallRecord(b.audit, o, subset, target,
                                               md_value, cat, dept)),
                    Append(b.rets, o.ret), o.raised, o.sort_memo, o.sample_memo)
               : o \in _select_units(b.audit, subset, target, md_value, cat, dept,
                                    b.sort_memo, b.sample_memo) }

\* The locals after the calls that returned.
Locals(t, rets) ==
    [t EXCEPT
        !.high_units = IF Len(rets) >= 1 THEN rets[1][1] ELSE 0,
        !.used_high = IF Len(rets) >= 1 THEN rets[1][2] ELSE 0,
        !.med_units = IF Len(rets) >= 2 THEN rets[2][1] ELSE 0,
        !.used_med = IF Len(rets) >= 2 THEN rets[2][2] ELSE 0,
        !.low_units = IF Len(rets) >= 3 THEN rets[3][1] ELSE 0,
        !.used_low = IF Len(rets) >= 3 THEN rets[3][2] ELSE 0]

\* Lines 115-137: the department has units; the three tier selections and the
\* department result.  An exception of a call ends the run.
SelectTiers ==
    /\ InLoop
    /\ params[row_idx].Percentage # 0
    /\ DeptDf(audit, params[row_idx].Department) # <<>>
    /\ LET row == params[row_idx]
           t == Targets(row)
           b0 == Body(audit, <<>>, <<>>, <<>>, FALSE, sort_memo, sample_memo)
       IN  \E bh \in Call(b0, "High", t.high_target, row.HighDays, t.dept) :
           \E bm \in Call(bh, "Medium", t.med_target, row.MediumDays, t.dept) :
           \E bl \in Call(bm, "Low", t.low_target, row.LowDays, t.dept) :
              LET rets == IF bl.raised THEN SubSeq(bl.rets, 1, Len(bl.rets) - 1)
                          ELSE bl.rets
                  loc == Locals(t, rets)
                  used_total == loc.used_high + loc.used_med + loc.used_low
                  utilization == Utilization(used_total, loc.dept_total)
              IN  /\ audit' = bl.audit
                  /\ calls' = calls \o bl.calls
                  /\ sort_memo' = bl.sort_memo
                  /\ sample_memo' = bl.sample_memo
                  /\ cur' = loc
                  /\ IF bl.raised
                     THEN /\ pc' = "raised"
                          /\ log_lines' = log_lines \o bl.lines
                          /\ UNCHANGED <<alloc_summary, row_idx>>
                     ELSE /\ pc' = "loop"
                          /\ row_idx' = row_idx + 1
                          /\ alloc_summary' = Append(alloc_summary,
                                AllocRow(loc.dept, loc.dept_total, used_total,
                                         utilization))
                          /\ log_lines' = Append(log_lines \o bl.lines,
                                Line("Dept", loc.dept, "", loc.dept_total, used_total))
    /\ UNCHANGED <<params_raw, total_mandays, params, audit_full, outputs, first_run>>

RECURSIVE SumOf(_, _)
SumOf(s, field) ==
    IF s = <<>> THEN 0 ELSE s[1][field] + SumOf(Tail(s), field)

\* Mutant: the crosstab counts every unit of the group, selected or not.
CountOf_AllUnits(aud, dept, cat) ==
    Cardinality({i \in DOMAIN aud : aud[i].Department = dept /\ aud[i].Category = cat})

\* One cell of audit[audit["Selected"] == "Yes"].groupby(["Department",
\* "Audit Risk Category"]).size(): the selected units of one group.
CountOf(aud, dept, cat) ==
    Cardinality({i \in DOMAIN aud : /\ aud[i].Selected = "Yes"
                                    /\ aud[i].Department = dept
                                    /\ aud[i].Category = cat})

\* Lines 160-170: one row per department name that has a selected unit (the
\* names as they stand in the sheet), the three columns High, Medium and Low
\* (reindex with fill_value=0) and their sum.  The rows come sorted by
\* department name; the model keeps them as a set.
DeptCategorySummary(aud) ==
    { LET high == CountOf(aud, d, "High")
          medium == CountOf(aud, d, "Medium")
          low == CountOf(aud, d, "Low")
      IN  [Department |-> d, High |-> high, Medium |-> medium, Low |-> low,
           TotalSelectedUnits |-> high + medium + low]
      : d \in {aud[i].Department : i \in {j \in DOMAIN aud : aud[j].Selected = "Yes"}} }

\* Lines 185-190: value_counts() of the category of the selected units, as a
\* dict: a key for every category that has a selected unit.  The category
\* column holds texts only (astype(str)), so fillna("Unknown") fills nothing.
RiskBreakdown(aud) ==
    [c \in {aud[i].Category : i \in {j \in DOMAIN aud : aud[j].Selected = "Yes"}} |->
        Cardinality({i \in DOMAIN aud : aud[i].Selected = "Yes" /\ aud[i].Category = c})]

\* Lines 139-213: the workbook, the log and the summary payload.
Emit ==
    /\ pc = "loop"
    /\ row_idx > Len(params)
    /\ outputs' =
         [written |-> TRUE,
          \* audit_full.to_excel(writer, sheet_name="Selected Units")
          selected_units_sheet |->
              [i \in DOMAIN audit_full |->
                  [Selected |-> audit_full[i].Selected,
                   PartyDays |-> audit_full[i].PartyDays]],
          department_summary |-> alloc_summary,
          dept_category_summary |-> DeptCategorySummary(audit),
          risk_breakdown |-> RiskBreakdown(audit),
          total_mandays_allocated |-> SumOf(alloc_summary, "Mandays_Allocated"),
          total_mandays_used |-> SumOf(alloc_summary, "Mandays_Used"),
          \* overall_util = round((total_used / total_alloc) * 100, 1) if total_alloc > 0 else 0
          overall_utilization |-> Utilization(SumOf(alloc_summary, "Mandays_Used"),
                                              SumOf(alloc_summary, "Mandays_Allocated")),
          selected_units |-> Cardinality({i \in DOMAIN audit : audit[i].Selected = "Yes"})]
    /\ pc' = "done"
    /\ UNCHANGED <<params_raw, total_mandays, params, audit, audit_full, row_idx, cur, log_lines,
                   alloc_summary, calls, sort_memo, sample_memo, first_run>>

Next ==
    \/ SkipRow
    \/ NoMatchingUnits
    \/ SelectTiers
    \/ Emit

Spec == Init /\ [][Next]_vars

\* Lines 64-86 do not read the audit sheet: the runs that start at the sheet
\* take the universes of High and Low units.
LoadUniverses ==
    {u \in Universes : \A i \in DOMAIN u : u[i].Category \in {"HIGH", "High", "Low"}}

\* A run that has the parameter table still to build.
InitLoad ==
    /\ params_raw \in RawTables
    /\ total_mandays = 0
    /\ params = <<>>
    /\ \E raw \in LoadUniverses :
          /\ audit_full = AuditFull(raw)
          /\ audit = Audit(AuditFull(raw))
    /\ pc = "start"
    /\ row_idx = 1
    /\ cur = NoLocals
    /\ log_lines = <<>>
    /\ alloc_summary = <<>>
    /\ calls = <<>>
    /\ sort_memo = <<>>
    /\ sample_memo = <<>>
    /\ outputs = NoOutputs
    /\ first_run = <<>>

\* Mutant: a sheet without a total runs with a total of 0.
BuildParams_DefaultTotal ==
    /\ pc = "start"
    /\ IF NumericIdx(params_raw) = {}
       THEN /\ pc' = "loop"
            /\ UNCHANGED <<total_mandays, params>>
       ELSE IF ParamsData(params_raw) = <<>>
       THEN /\ pc' = "raised"
            /\ total_mandays' = ToNumeric(params_raw[LastValidIdx(params_raw)][2]).n
            /\ UNCHANGED params
       ELSE /\ pc' = "loop"
            /\ total_mandays' = ToNumeric(params_raw[LastValidIdx(params_raw)][2]).n
            /\ params' = ParamsOf(WithPercent(DropHeader(ParamsData(params_raw))))
    /\ UNCHANGED <<params_raw, audit, audit_full, row_idx, cur, log_lines,
                   alloc_summary, calls, sort_memo, sample_memo, outputs, first_run>>

\* Lines 64-86: the total and the parameter table are built from the sheet.
\* Line 66 raises ValueError when no second-column cell is numeric; line 72
\* reads the first cell of params_data and raises IndexError when no row stands
\* before the total.
BuildParams ==
    /\ pc = "start"
    /\ IF NumericIdx(params_raw) = {}
       THEN /\ pc' = "raised"
            /\ UNCHANGED <<total_mandays, params>>
       ELSE IF ParamsData(params_raw) = <<>>
       THEN /\ pc' = "raised"
            /\ total_mandays' = ToNumeric(params_raw[LastValidIdx(params_raw)][2]).n
            /\ UNCHANGED params
       ELSE /\ pc' = "loop"
            /\ total_mandays' = ToNumeric(params_raw[LastValidIdx(params_raw)][2]).n
            /\ params' = ParamsOf(WithPercent(DropHeader(ParamsData(params_raw))))
    /\ UNCHANGED <<params_raw, audit, audit_full, row_idx, cur, log_lines,
                   alloc_summary, calls, sort_memo, sample_memo, outputs, first_run>>

NextLoad == BuildParams \/ Next

\* A run from the sheets as read.
SpecLoad == InitLoad /\ [][NextLoad]_vars

Ended == pc \in {"done", "raised"}

\* The endpoint runs the engine again on the same workbook: every table is
\* built afresh from the sheets; the sort and the seeded draw are the same
\* functions as before.
Rerun ==
    /\ Ended
    /\ first_run = <<>>
    /\ first_run' = << [pc |-> pc, audit |-> audit, alloc_summary |-> alloc_summary,
                        calls |-> calls] >>
    /\ audit' = Audit(AuditFull(audit_full))
    /\ pc' = "loop"
    /\ row_idx' = 1
    /\ cur' = NoLocals
    /\ log_lines' = <<>>
    /\ alloc_summary' = <<>>
    /\ calls' = <<>>
    /\ outputs' = NoOutputs
    /\ UNCHANGED <<params_raw, total_mandays, params, audit_full, sort_memo, sample_memo>>

NextTwice == Next \/ Rerun

\* The rows with a budget above 0, and the row that is passed over.
InitTwice ==
    /\ Init
    /\ \A k \in DOMAIN params :
          DeptTotal(total_mandays, params[k].Percentage) > 0
          \/ params[k].Percentage = 0

\* Two runs in a row on the same input.
SpecTwice == InitTwice /\ [][NextTwice]_vars

\* The rows of a table in another order.
Reorderings(table) ==
    {[k \in DOMAIN table |-> table[f[k]]] : f \in Perms([i \in DOMAIN table |-> i])}

\* The endpoint runs the engine again on a workbook that holds the same
\* parameter rows in another order and the same audit sheet.
RerunPermuted ==
    /\ Ended
    /\ first_run = <<>>
    /\ first_run' = << [pc |-> pc, audit |-> audit, alloc_summary |-> alloc_summary,
                        calls |-> calls] >>
    /\ params' \in Reorderings(params)
    /\ params_raw' = RawOf(params', total_mandays)
    /\ audit' = Audit(AuditFull(audit_full))
    /\ pc' = "loop"
    /\ row_idx' = 1
    /\ cur' = NoLocals
    /\ log_lines' = <<>>
    /\ alloc_summary' = <<>>
    /\ calls' = <<>>
    /\ outputs' = NoOutputs
    /\ UNCHANGED <<total_mandays, audit_full, sort_memo, sample_memo>>

NextPermuted == Next \/ RerunPermuted

\* Two runs in a row, the second on the parameter rows in another order.
SpecPermuted == InitTwice /\ [][NextPermuted]_vars

-----------------------------------------------------------------------------
(* Properties.                                                             *)

Rating(u) == audit[u].Rating

Finished == pc = "done"

\* C1 (Conservation): after a run, every department result with a budget of at
\* least 0 has Mandays_Used <= Mandays_Allocated, whatever the tier percentages
\* and tier costs of its row.
C1_Conservation ==
    Finished =>
        \A k \in DOMAIN alloc_summary :
            alloc_summary[k].Mandays_Allocated >= 0 =>
                alloc_summary[k].Mandays_Used <= alloc_summary[k].Mandays_Allocated

\* C2 (Disjointness): within one run every unit is in the pool of at most one
\* _select_units call, and no unit is selected by two calls, also when two
\* parameter rows name the same department or differ only in letter case.
C2_Disjointness ==
    \A i, j \in DOMAIN calls :
        i < j =>
            /\ Range(calls[i].pool) \cap Range(calls[j].pool) = {}
            /\ Range(calls[i].final_sel) \cap Range(calls[j].final_sel) = {}

\* C3 (Results table): after a run, the row of every unit in the 'Selected
\* Units' sheet has Selected = "Yes" and Party days = the tier cost exactly when
\* the engine selected the unit, and Selected = "No", Party days = 0 otherwise.
C3_ResultsReflectSelection ==
    Finished =>
        \A u \in Units :
            outputs.selected_units_sheet[u] =
                IF \E k \in DOMAIN calls : u \in Range(calls[k].final_sel)
                THEN [Selected |-> "Yes", PartyDays |-> audit[u].PartyDays]
                ELSE [Selected |-> "No", PartyDays |-> 0]

\* C4 (Small pool is no error): a call whose non-empty pool holds fewer units
\* than floor(target / cost) ends without raising, for every tier, and returns
\* (count, count * cost) with count <= pool size and the mandays below target.
C4_SmallPoolNoError ==
    \A k \in DOMAIN calls :
        LET c == calls[k] IN
        (c.md_value > 0 /\ c.pool # <<>> /\ Len(c.pool) < Floor(c.target, c.md_value)) =>
            /\ ~c.raised
            /\ c.ret = <<Len(c.final_sel), Len(c.final_sel) * c.md_value>>
            /\ Len(c.final_sel) <= Len(c.pool)
            /\ c.ret[2] < c.target

\* The calls of the run so far and what each did.
AllCalls == {calls[k] : k \in DOMAIN calls}

\* The calls of the row processed last (a row makes at most three): every call
\* of a run is one of these in the state its row leaves behind.
Calls == {calls[k] : k \in {j \in DOMAIN calls : j + 3 > Len(calls)}}

Sel(c) == Range(c.final_sel)

\* S holds highest-rated units of P: no unit of P outside S is rated above one in S.
TopRated(S, P) == \A s \in S : \A u \in P \ S : Rating(s) >= Rating(u)

\* C6 (High-tier hybrid split): a High call with unitCount > 1 and a pool of at
\* least unitCount units selects the ceil(unitCount / 2) highest-rated units of
\* the pool plus unitCount - ceil(unitCount / 2) units of the rest of the pool,
\* no unit twice: exactly unitCount units, mandaysUsed = unitCount * cost.
C6_HybridSplit ==
    \A c \in Calls :
        (c.label = "High" /\ c.num_units > 1 /\ Len(c.pool) >= c.num_units) =>
            \E top \in SUBSET Range(c.pool) :
                /\ 2 * Cardinality(top) \in {c.num_units, c.num_units + 1}
                /\ TopRated(top, Range(c.pool))
                /\ top \subseteq Sel(c)
                /\ Sel(c) \ top \subseteq Range(c.pool) \ top
                /\ Cardinality(Sel(c)) = c.num_units
                /\ Len(c.final_sel) = c.num_units
                /\ ~c.raised
                /\ c.ret = <<c.num_units, c.num_units * c.md_value>>
                /\ \A u \in Sel(c) :
                      audit[u].Selected = "Yes" /\ audit[u].PartyDays > 0

\* A High call drew one of several possible remainders: three or more units in
\* the pool, two of them asked for.
C6_Witness ==
    \E c \in Calls :
        /\ c.label = "High" /\ c.num_units = 2 /\ Len(c.pool) = 3
        /\ c.branch = "hybrid"
        /\ Cardinality(Sel(c)) = 2
        /\ \E u, v \in Range(c.pool) : Rating(u) # Rating(v)

\* C7 (Deterministic branch): a Medium or Low call, or a High call with
\* unitCount <= 1, that selects at all selects exactly min(unitCount, pool size)
\* units of its pool, the first ones of the pool in descending rating order:
\* no selected unit is rated below an unselected unit of the pool.
C7_DeterministicTop ==
    \A c \in Calls :
        (c.label \in {"Medium", "Low"} \/ c.num_units <= 1) =>
            /\ Sel(c) \subseteq Range(c.pool)
            /\ Cardinality(Sel(c)) = Min(c.num_units, Len(c.pool))
            /\ TopRated(Sel(c), Range(c.pool))
            /\ c.changed \subseteq Sel(c)
            /\ \A u \in Sel(c) :
                  audit[u].Selected = "Yes" /\ audit[u].PartyDays > 0
            /\ c.num_units >= 1 =>
                  /\ Sel(c) = {c.sorted[i] : i \in 1..Min(c.num_units, Len(c.pool))}
                  /\ Range(c.sorted) = Range(c.pool) /\ Len(c.sorted) = Len(c.pool)
                  /\ \A i, j \in DOMAIN c.sorted :
                        i < j => Rating(c.sorted[i]) >= Rating(c.sorted[j])

\* A High call for one unit took the better of two differently rated units that
\* stand in the pool in ascending order.
C7_Witness ==
    \E c \in Calls :
        /\ c.label = "High" /\ c.num_units = 1 /\ Len(c.pool) >= 2
        /\ Rating(c.pool[1]) < Rating(c.pool[Len(c.pool)])
        /\ Cardinality(Sel(c)) = 1

\* u comes before v in the order sort_values returned
Before(c, u, v) ==
    \E i, j \in DOMAIN c.sorted : i < j /\ c.sorted[i] = u /\ c.sorted[j] = v

\* C8 (Stable tie-break): in the sorted pool, units of equal rating keep their
\* relative order of the universe, so that when the cut-off falls among equally
\* rated units the ones first in the universe are the ones selected.
C8_StableTieBreak ==
    \A c \in Calls :
        /\ \A u, v \in Range(c.sorted) :
              (Rating(u) = Rating(v) /\ u < v) => Before(c, u, v)
        /\ c.branch = "top" =>
              \A u, v \in Range(c.pool) :
                  (Rating(u) = Rating(v) /\ u < v /\ v \in Sel(c)) => u \in Sel(c)

\* n is the floor of target / cost, for cost > 0
IsFloor(n, target, cost) == n * cost <= target /\ target < (n + 1) * cost

\* C9 as stated (Floor semantics): for every call with cost > 0 the unit count
\* is floor(target / cost) and the number of units selected never exceeds it.
C9_FloorAsStated ==
    \A c \in Calls :
        c.md_value > 0 =>
            \A n \in -8..8 :
                IsFloor(n, c.target, c.md_value) =>
                    /\ Len(c.final_sel) <= n
                    /\ c.pool # <<>> => c.num_units = n

\* C9, amended: for every call with cost > 0 and a non-empty pool the unit
\* count is floor(target / cost), or 0 when that is negative; the number of
\* units selected never exceeds the unit count (target 5, cost 3: one unit,
\* never two), and the mandays returned are at most the target when target >= 0.
C9_FloorSemantics ==
    \A c \in Calls :
        c.md_value > 0 =>
            /\ c.pool # <<>> =>
                  \A n \in -8..8 :
                      IsFloor(n, c.target, c.md_value) => c.num_units = Max(n, 0)
            /\ Len(c.final_sel) <= c.num_units
            /\ Cardinality(c.changed) <= c.num_units
            /\ c.ret[1] <= c.num_units
            /\ c.target >= 0 => c.ret[2] <= c.target

\* A call whose target is no multiple of the cost selected floor(5 / 3) = 1 unit
\* of a pool of two or more.
C9_Witness ==
    \E c \in Calls :
        /\ c.target = 5 /\ c.md_value = 3 /\ Len(c.pool) >= 2
        /\ c.num_units = 1 /\ c.ret = <<1, 3>>

\* C10 (Zero allocation): a call with an empty pool, a cost <= 0, or a target
\* below the cost (floor(target / cost) zero or negative) returns (0, 0), changes
\* no unit, appends one trace line that gives the reason, and does not raise.
C10_ZeroAllocation ==
    \A c \in Calls :
        /\ (c.pool = <<>> \/ c.md_value <= 0) =>
              /\ c.ret = <<0, 0>> /\ c.changed = {} /\ c.final_sel = <<>>
              /\ ~c.raised
              /\ Len(c.lines) = 1 /\ c.lines[1].kind = "NoPool"
        /\ (c.pool # <<>> /\ c.md_value > 0 /\ c.target < c.md_value) =>
              /\ c.ret = <<0, 0>> /\ c.changed = {} /\ c.final_sel = <<>>
              /\ ~c.raised
              /\ Len(c.lines) = 1 /\ c.lines[1].kind = "TargetTooLow"

\* All three zero cases happened in one run: an empty pool, a cost of 0 with a
\* pool, and a negative target with a pool.
C10_Witness ==
    /\ \E c \in AllCalls : c.pool = <<>>
    /\ \E c \in AllCalls : c.pool # <<>> /\ c.md_value <= 0
    /\ \E c \in AllCalls : c.pool # <<>> /\ c.md_value > 0 /\ c.target < 0
    /\ \A c \in AllCalls : c.ret = <<0, 0>>

\* The units a hybrid call drew at random, and the pool it drew them from.
TopSlice(c) == {c.sorted[i] : i \in 1..Min((c.num_units + 1) \div 2, Len(c.sorted))}
Drawn(c) == Sel(c) \ TopSlice(c)
Remainder(c) == SelectSeq(c.sorted, LAMBDA u : u \notin TopSlice(c))

IsRoundHalfEven(n, num, den) ==
    /\ 2 * (num - n * den) <= den
    /\ 2 * (n * den - num) <= den
    /\ (2 * (num - n * den) = den \/ 2 * (n * den - num) = den) => n % 2 = 0

\* No unit of the working table is of the department, whatever the letter case.
NoUnitOf(dept) == \A u \in Units : Lower(audit[u].Department) # Lower(dept)

\* The trace grew by exactly one line, of the given kind.
OneMoreLine(kind) ==
    /\ Len(log_lines') = Len(log_lines) + 1
    /\ SubSeq(log_lines', 1, Len(log_lines)) = log_lines
    /\ log_lines'[Len(log_lines')].kind = kind

\* C11 (Zero percentage is skipped): processing a parameter row whose percentage
\* is 0 makes no selection call, changes no audit unit, adds no department
\* result and no trace line, raises nothing, and the run goes on to the next row.
C11_ZeroPercentSkipped ==
    [][(InLoop /\ params[row_idx].Percentage = 0) =>
          /\ calls' = calls
          /\ audit' = audit
          /\ audit_full' = audit_full
          /\ alloc_summary' = alloc_summary
          /\ log_lines' = log_lines
          /\ pc' = "loop"
          /\ row_idx' = row_idx + 1]_vars

\* A row with percentage 0 was passed over after a row that selected units.
C11_Witness ==
    /\ pc = "loop"
    /\ row_idx = 3
    /\ params[2].Percentage = 0
    /\ Len(alloc_summary) = 1
    /\ Len(calls) = 3
    /\ \E u \in Units : audit[u].Selected = "Yes"

\* C12 (Department without units): a row with percentage # 0 whose department
\* matches no audit unit, whatever the letter case, adds the department result
\* (department, round(total * pct / 100), used 0, utilization 0) and one warning
\* trace line, changes no audit unit, makes no selection call, and the run goes
\* on to the next row.
C12_AbsentDepartment ==
    [][(/\ InLoop
        /\ params[row_idx].Percentage # 0
        /\ NoUnitOf(params[row_idx].Department)) =>
          /\ Len(alloc_summary') = Len(alloc_summary) + 1
          /\ SubSeq(alloc_summary', 1, Len(alloc_summary)) = alloc_summary
          /\ LET r == alloc_summary'[Len(alloc_summary')]
             IN  /\ r.Department = params[row_idx].Department
                 /\ IsRoundHalfEven(r.Mandays_Allocated,
                                    total_mandays * params[row_idx].Percentage, 100)
                 /\ r.Mandays_Used = 0
                 /\ r.Utilization = 0
          /\ OneMoreLine("NoMatch")
          /\ audit' = audit
          /\ calls' = calls
          /\ pc' = "loop"
          /\ row_idx' = row_idx + 1]_vars

\* A department with a budget of 5 and no unit was reported, and the next
\* department went on to select units.
C12_Witness ==
    /\ Len(alloc_summary) = 2
    /\ alloc_summary[1].Mandays_Allocated = 5
    /\ alloc_summary[1].Mandays_Used = 0
    /\ NoUnitOf(alloc_summary[1].Department)
    /\ log_lines[1].kind = "NoMatch"
    /\ \E u \in Units : audit[u].Selected = "Yes"

\* C13 (Utilization boundary): a department result whose target is 0 or
\* negative has utilization 0, and the overall utilization of the summary is 0
\* when the department targets sum to 0 or less.
C13_UtilizationBoundary ==
    /\ \A k \in DOMAIN alloc_summary :
          alloc_summary[k].Mandays_Allocated <= 0 => alloc_summary[k].Utilization = 0
    /\ Finished =>
          (outputs.total_mandays_allocated <= 0 => outputs.overall_utilization = 0)

\* A run ended with one department target of 0 and one below 0.
C13_Witness ==
    /\ Finished
    /\ \E k \in DOMAIN alloc_summary : alloc_summary[k].Mandays_Allocated = 0
    /\ \E k \in DOMAIN alloc_summary : alloc_summary[k].Mandays_Allocated < 0
    /\ outputs.total_mandays_allocated < 0
    /\ outputs.overall_utilization = 0

\* The second column of the sheet holds no number and no text that reads as one.
NoTotal == \A k \in DOMAIN params_raw : ToNumeric(params_raw[k][2]).t # "num"

\* C14 (Fatal error on missing total): when no row of the parameters sheet has
\* a numeric second column the run ends with an error right away: no selection
\* call is made, no unit is marked, and no workbook, log or summary is produced.
C14_NoTotalIsFatal ==
    (NoTotal /\ pc # "start") =>
        /\ pc = "raised"
        /\ calls = <<>>
        /\ \A u \in Units : audit[u].Selected = "No" /\ audit[u].PartyDays = 0
        /\ log_lines = <<>>
        /\ alloc_summary = <<>>
        /\ outputs = NoOutputs
        /\ ~outputs.written

\* A sheet of a header line and further lines, none with a numeric second
\* column, ended the run.
C14_Witness ==
    /\ NoTotal
    /\ Len(params_raw) >= 2
    /\ \E k \in DOMAIN params_raw : params_raw[k] = HeaderRow
    /\ pc = "raised"

\* The calls a step added to the history.
NewCalls == {calls'[k] : k \in {j \in DOMAIN calls' : j > Len(calls)}}

\* The number of calls, of those made so far, that selected the unit.
TimesSelected(cs, u) == Cardinality({k \in DOMAIN cs : u \in Range(cs[k].final_sel)})

\* C15 (Unit lifecycle): in every step of a run the set of units stays the same,
\* a unit that changes goes from (No, 0) to (Yes, cost), a selected unit stays
\* selected with the same assigned days, and no unit is written by two calls.
C15_UnitLifecycle ==
    [][/\ DOMAIN audit' = DOMAIN audit
       /\ \A u \in DOMAIN audit :
             /\ audit[u].Selected = "Yes" =>
                   /\ audit'[u].Selected = "Yes"
                   /\ audit'[u].PartyDays = audit[u].PartyDays
             /\ audit'[u] # audit[u] =>
                   /\ audit[u].Selected = "No" /\ audit[u].PartyDays = 0
                   /\ audit'[u].Selected = "Yes"
             /\ TimesSelected(calls', u) <= 1]_vars

\* C16 (Frame of a selection call): every unit a call for (department d, tier t)
\* changes is of department d, whatever the letter case, and of risk category t;
\* a step changes no unit that none of its calls changed, and no step of the
\* run changes the parameter table.
C16_CallFrame ==
    [][/\ params' = params
       /\ \A c \in NewCalls :
             \A u \in c.changed :
                 /\ Lower(audit[u].Department) = Lower(c.dept)
                 /\ audit[u].Category = c.label
       /\ \A u \in Units :
             audit'[u] # audit[u] => \E c \in NewCalls : u \in c.changed]_vars

\* A call marked a unit while a unit of another tier of the same department and
\* a unit of another department stayed as they were.
C16_Witness ==
    \E c \in Calls :
        /\ c.changed # {}
        /\ \E u \in Units :
              /\ Lower(audit[u].Department) = Lower(c.dept)
              /\ audit[u].Category \in {"High", "Medium", "Low"} \ {c.label}
              /\ audit[u].Selected = "No"
        /\ \E u \in Units :
              /\ Lower(audit[u].Department) # Lower(c.dept)
              /\ audit[u].Selected = "No"

\* The parameter row the loop processed last.
LastRow == IF pc = "raised" THEN row_idx ELSE row_idx - 1

\* C17 (Target calculation): for the row processed last, when its percentage is
\* not 0, the department budget is round(total * percentage / 100) and each
\* tier target round(budget * tierPct / 100), halves going to the even
\* neighbour (2.5 gives 2, 1.5 gives 2); the department result carries the
\* budget and the three calls get the three targets.
C17_TargetCalculation ==
    (LastRow >= 1 /\ params[LastRow].Percentage # 0) =>
        LET row == params[LastRow] IN
        /\ IsRoundHalfEven(cur.dept_total, total_mandays * row.Percentage, 100)
        /\ IsRoundHalfEven(cur.high_target, cur.dept_total * row.HighPct, 100)
        /\ IsRoundHalfEven(cur.med_target, cur.dept_total * row.MedPct, 100)
        /\ IsRoundHalfEven(cur.low_target, cur.dept_total * row.LowPct, 100)
        /\ pc # "raised" =>
              /\ alloc_summary[Len(alloc_summary)].Mandays_Allocated = cur.dept_total
              /\ ~NoUnitOf(row.Department) =>
                    /\ Len(calls) >= 3
                    /\ calls[Len(calls) - 2].target = cur.high_target
                    /\ calls[Len(calls) - 1].target = cur.med_target
                    /\ calls[Len(calls)].target = cur.low_target

\* Both halves happened in one run: a budget of 5 with a tier of 50% (2.5, target
\* 2) and then a budget of 3 with a tier of 50% (1.5, target 2).
C17_Witness ==
    /\ row_idx = 3
    /\ pc = "loop"
    /\ Len(alloc_summary) = 2
    /\ alloc_summary[1].Mandays_Allocated = 5
    /\ params[1].HighPct = 50
    /\ calls[1].target = 2
    /\ cur.dept_total = 3
    /\ params[2].HighPct = 50
    /\ cur.high_target = 2

\* The selected units of the department name, of one category or of any.
SelectedOf(dept, cats) ==
    {u \in Units : /\ audit[u].Selected = "Yes"
                   /\ audit[u].Department = dept
                   /\ audit[u].Category \in cats}

\* C18 (Zero-filled department crosstab): after a run, the crosstab has one row
\* for each department name with a selected unit; the row carries the counts
\* High, Medium and Low of the selected units of that name (0 when there is
\* none), and Total Selected Units = High + Medium + Low = the number of
\* selected units of that name.
C18_ZeroFilledCrosstab ==
    Finished =>
        /\ \A r \in outputs.dept_category_summary :
              /\ r.High = Cardinality(SelectedOf(r.Department, {"High"}))
              /\ r.Medium = Cardinality(SelectedOf(r.Department, {"Medium"}))
              /\ r.Low = Cardinality(SelectedOf(r.Department, {"Low"}))
              /\ r.TotalSelectedUnits = r.High + r.Medium + r.Low
              /\ r.TotalSelectedUnits =
                    Cardinality(SelectedOf(r.Department, {audit[u].Category : u \in Units}))
              /\ r.TotalSelectedUnits >= 1
        /\ \A u \in Units :
              audit[u].Selected = "Yes" =>
                  Cardinality({r \in outputs.dept_category_summary :
                                  r.Department = audit[u].Department}) = 1

\* A run ended with two crosstab rows, one of them with High selections only.
C18_Witness ==
    /\ Finished
    /\ Cardinality(outputs.dept_category_summary) = 2
    /\ \E r \in outputs.dept_category_summary :
          r.High >= 1 /\ r.Medium = 0 /\ r.Low = 0 /\ r.TotalSelectedUnits = r.High

\* C19 (Order independence): a run on the same parameter rows in another order
\* that completes, after a run that completed, leaves every unit with the same
\* selected flag and assigned days and gives the same set of department results.
C19_OrderIndependence ==
    (Len(first_run) = 1 /\ pc = "done" /\ first_run[1].pc = "done") =>
        /\ \A u \in Units :
              /\ audit[u].Selected = first_run[1].audit[u].Selected
              /\ audit[u].PartyDays = first_run[1].audit[u].PartyDays
        /\ Range(alloc_summary) = Range(first_run[1].alloc_summary)

RECURSIVE UnitsReturned(_)
UnitsReturned(cs) == IF cs = <<>> THEN 0 ELSE cs[1].ret[1] + UnitsReturned(Tail(cs))

\* C20 (Summary agrees with the unit table): after a run, total_mandays_used of
\* the summary is the sum of Party days over the units of the working table,
\* and selected_units is the sum of the unit counts the calls returned.
C20_SummaryAgreesWithUnits ==
    Finished =>
        /\ outputs.total_mandays_used = SumOf(audit, "PartyDays")
        /\ outputs.selected_units = UnitsReturned(calls)

Tiers == {"High", "Medium", "Low"}

\* C21 (Only tiered units are selectable): in every state, every selected unit
\* has the risk category High, Medium or Low and a department that matches,
\* whatever the letter case, a parameter row with percentage # 0; the
\* risk-category histogram of the summary has no other key than High, Medium
\* and Low, and counts the selected units of each.
C21_OnlyTieredUnits ==
    /\ \A u \in Units :
          audit[u].Selected = "Yes" =>
              /\ audit[u].Category \in Tiers
              /\ \E k \in DOMAIN params :
                    /\ params[k].Percentage # 0
                    /\ Lower(params[k].Department) = Lower(audit[u].Department)
    /\ Finished =>
          /\ DOMAIN outputs.risk_breakdown \subseteq Tiers
          /\ \A c \in DOMAIN outputs.risk_breakdown :
                /\ outputs.risk_breakdown[c] >= 1
                /\ outputs.risk_breakdown[c] =
                      Cardinality({u \in Units : /\ audit[u].Selected = "Yes"
                                                 /\ audit[u].Category = c})

\* A run ended with a selected unit, counted in the histogram, while a unit of
\* the same department with another category and a higher rating was left out.
C21_Witness ==
    /\ Finished
    /\ \E u, v \in Units :
          /\ audit[u].Selected = "Yes"
          /\ audit[u].Category \in DOMAIN outputs.risk_breakdown
          /\ audit[v].Category \notin Tiers
          /\ Lower(audit[v].Department) = Lower(audit[u].Department)
          /\ Rating(v) > Rating(u)
          /\ audit[v].Selected = "No"

\* The run ended in the error of the table building: no call was made.
BuildRaised == pc = "raised" /\ calls = <<>>

\* C22 (Parameter-table building succeeds whenever a total exists): when a row
\* of the parameters sheet has a numeric second column the table building ends
\* without error for every sheet, also when the total is the first row; that
\* run ends with an empty department summary and all totals 0.
C22_BuildSucceeds ==
    (pc # "start" /\ ~NoTotal) =>
        /\ ~BuildRaised
        /\ (Finished /\ \A k \in DOMAIN params_raw : k > 1 => ToNumeric(params_raw[k][2]).t # "num") =>
              /\ outputs.department_summary = <<>>
              /\ outputs.total_mandays_allocated = 0
              /\ outputs.total_mandays_used = 0
              /\ outputs.selected_units = 0

====
